---- MODULE Spec2Model ----
(***************************************************************************)
(* A model of the peer-exchange swarm node of pex.py (class PexNode) and   *)
(* of the two threads of example.py that drive it: the polling thread      *)
(* (PollThread.run) and an application thread that calls the node's        *)
(* operations while holding the one node lock, as the prompting loop does. *)
(* The application thread stands for any caller of addPeer, sendMessage and *)
(* knownPeers that keeps the locking discipline of example.py line 130; the *)
(* parsing of the shell's command line is no part of the model.            *)
(*                                                                         *)
(* The clock time.clock() is read in ticks of 10 ms, so that the schedule  *)
(* [0.01, 0.1, 1, 10] and the 2 s broadcast interval are integers.         *)
(* Byte strings are sequences of numbers 0..255; peer identifiers are      *)
(* sequences of one-character strings.  Python's exceptions are modelled   *)
(* by their class name; "none" is a normal return.  The interpreter is one *)
(* that still has time.clock (Python 3.3 to 3.7): with a later one the     *)
(* constructor itself raises and there is no node to speak of.  The socket *)
(* takes every datagram handed to sendto, but for one addressed to a port  *)
(* outside 0..65535, for which sendto raises OverflowError.                *)
(***************************************************************************)
EXTENDS Integers, Sequences, FiniteSets, TLC

VARIABLES
    now,              \* the reading of time.clock(), in ticks of 10 ms
    broadcast,        \* PexNode.broadcast
    lastBroadcastTime,\* PexNode._lastBroadcastTime
    peers,            \* PexNode._peers: identifier -> _PeerRecord
    unackedMessages,  \* PexNode._unackedMessages
    sockIn,           \* how many datagrams wait on the node's socket
    sent,             \* datagrams handed to sock.sendto, oldest first
    callbacks,        \* notifications made to the application, oldest first
    nodeLock,         \* example.py nodeLock: "free", "poll" or "app"
    poll,             \* the polling thread: position, what poll raised, locals
    app,              \* the application thread: position, call, what it raised
    nTicks, nPolls, nCalls, nArrivals,  \* how often each bounded step was taken
    codec             \* the packet under the codec harness (CodecSpec)

vars == << now, broadcast, lastBroadcastTime, peers, unackedMessages, sockIn,
           sent, callbacks, nodeLock, poll, app, nTicks, nPolls, nCalls,
           nArrivals, codec >>

nodeVars == << now, broadcast, lastBroadcastTime, peers, unackedMessages,
               sockIn, sent, callbacks, nodeLock, poll, app, nTicks, nPolls,
               nCalls, nArrivals >>

----------------------------------------------------------------------------
(* Bounds of the model *)

MaxTicks == 2
MaxPolls == 2
MaxCalls == 2
MaxArrivals == 2
MaxPayloadLen == 2

\* The amounts by which the clock is seen to advance between two steps: 1 s.
TickSteps == {100}

----------------------------------------------------------------------------
(* Constants of pex.py *)

_BROADCAST_INTERVAL == 200
_PACKET_BUFSIZE == 1024
_MAGIC_BYTES == <<115, 101, 116, 104>>
_PACKET_HEADER_SIZE == Len(_MAGIC_BYTES) + 3
_PACKET_TYPE_MESSAGE == 0
_PACKET_TYPE_ACK == 1
_PACKET_TYPE_PING == 2
_PACKET_TYPE_PEX == 3
_MAX_PACKET_TYPE == 3
_TIMEOUT_LENGTHS == <<1, 10, 100, 1000>>
\* The literal 2 of poll's broadcast test, in ticks.
PollBroadcastGap == 200
\* The length _sanitizePeerId asks for.
PeerIdLength == 64
\* The modulus of generateNextPacketId.
PacketIdModulus == 65536
\* The default port of PexNode.__init__.
DefaultPort == 4141

----------------------------------------------------------------------------
(* Addresses and identifiers *)

AddrA == <<"10.0.0.2", 4141>>
AddrB == <<"10.0.0.3", 4141>>
Addrs == {AddrA, AddrB}
\* An address whose port is no port: sendto refuses it.
AddrC == <<"10.0.0.2", 70000>>
BroadcastAddr == <<"<broadcast>", DefaultPort>>

\* hashlib.sha256(b"10.0.0.2:4141").hexdigest()
DigestA == <<"d","f","a","1","2","6","7","b","5","e","3","3","7","6","f","e",
             "5","2","1","5","0","6","a","6","f","e","2","f","0","9","f","6",
             "8","4","6","8","d","0","7","5","a","a","e","f","9","1","b","9",
             "4","0","e","8","5","0","5","9","a","4","a","1","0","8","7","2">>
\* hashlib.sha256(b"10.0.0.3:4141").hexdigest()
DigestB == <<"c","4","8","e","4","1","e","7","2","0","b","4","b","b","8","6",
             "5","b","d","f","6","8","c","5","9","e","a","d","d","7","0","4",
             "a","1","6","5","a","f","4","f","6","b","e","b","2","a","4","c",
             "d","7","f","3","f","b","0","e","f","f","6","6","b","e","c","6">>

\* hashlib.sha256(b"10.0.0.2:70000").hexdigest()
DigestC == <<"0","e","6","e","f","0","e","b","f","4","6","c","7","6","8","a",
             "4","9","0","c","8","4","8","d","7","8","6","4","5","7","5","f",
             "2","6","4","3","b","6","6","7","b","c","2","5","e","c","c","0",
             "b","b","4","2","e","3","1","7","b","2","8","2","f","9","4","8">>

\* The SHA-256 hex digest of "<ip>:<port>", tabulated for the model's addresses.
_addrToPeerId(ip, port) ==
    IF <<ip, port>> = AddrA THEN DigestA
    ELSE IF <<ip, port>> = AddrB THEN DigestB ELSE DigestC

\* Identifiers a caller may hand to sendMessage.
IdShort == <<"a", "b", "c">>
IdUpper == <<"A", "B", "C", "D", "E", "F">> \o [i \in 1..58 |-> "0"]
IdStranger == [i \in 1..64 |-> "f"]
IdNotHex == [i \in 1..64 |-> "g"]
IdInputs == {DigestA, DigestB, IdShort, IdUpper, IdStranger, IdNotHex}

\* _sanitizePeerId: False for a wrong length; for a length of 64 line 57 calls
\* str.tolower, which no str has, so AttributeError is raised and the loop of
\* lines 60-63 never runs.  val is the value returned when nothing is raised.
_sanitizePeerId(peerId) ==
    IF Len(peerId) # PeerIdLength
    THEN [exc |-> "none", val |-> FALSE]
    ELSE [exc |-> "AttributeError", val |-> FALSE]

----------------------------------------------------------------------------
(* The packet codec *)

\* struct.pack('!BH', packetType, packetId)
StructPack(packetType, packetId) ==
    <<packetType, packetId \div 256, packetId % 256>>

\* _packPacket with the limit one byte short (>= for >).
_packPacket_OffByOne(packetType, packetId, payload) ==
    IF Len(payload) >= _PACKET_BUFSIZE - _PACKET_HEADER_SIZE
    THEN [exc |-> "Exception", bytes |-> <<>>]
    ELSE [exc |-> "none",
          bytes |-> _MAGIC_BYTES \o StructPack(packetType, packetId) \o payload]

\* _packPacket: the packet's bytes, or the Exception of line 89.
_packPacket(packetType, packetId, payload) ==
    IF Len(payload) > _PACKET_BUFSIZE - _PACKET_HEADER_SIZE
    THEN [exc |-> "Exception", bytes |-> <<>>]
    ELSE [exc |-> "none",
          bytes |-> _MAGIC_BYTES \o StructPack(packetType, packetId) \o payload]

\* Python's False, as _unpackPacketHeader returns it.
PyFalse == [ok |-> FALSE, type |-> 0, id |-> 0, payload |-> <<>>]

\* packet.startswith(_MAGIC_BYTES)
StartsWithMagic(packet) ==
    /\ Len(packet) >= Len(_MAGIC_BYTES)
    /\ SubSeq(packet, 1, Len(_MAGIC_BYTES)) = _MAGIC_BYTES

\* _unpackPacketHeader reading the packet id low byte first ('<BH' for '!BH').
_unpackPacketHeader_LittleEndian(packet) ==
    IF Len(packet) < _PACKET_HEADER_SIZE \/ ~StartsWithMagic(packet)
    THEN PyFalse
    ELSE LET packType == packet[5]
             packId == packet[7] * 256 + packet[6]
         IN  IF packType > _MAX_PACKET_TYPE
             THEN PyFalse
             ELSE [ok |-> TRUE, type |-> packType, id |-> packId,
                   payload |-> SubSeq(packet, _PACKET_HEADER_SIZE + 1, Len(packet))]

\* _unpackPacketHeader without the test of the type code (lines 77-78).
_unpackPacketHeader_NoTypeCheck(packet) ==
    IF Len(packet) < _PACKET_HEADER_SIZE \/ ~StartsWithMagic(packet)
    THEN PyFalse
    ELSE [ok |-> TRUE, type |-> packet[5], id |-> packet[6] * 256 + packet[7],
          payload |-> SubSeq(packet, _PACKET_HEADER_SIZE + 1, Len(packet))]

\* _unpackPacketHeader: False, or the tuple (type, id, payload).
_unpackPacketHeader(packet) ==
    IF Len(packet) < _PACKET_HEADER_SIZE \/ ~StartsWithMagic(packet)
    THEN PyFalse
    ELSE LET packType == packet[5]
             packId == packet[6] * 256 + packet[7]
         IN  IF packType > _MAX_PACKET_TYPE
             THEN PyFalse
             ELSE [ok |-> TRUE, type |-> packType, id |-> packId,
                   payload |-> SubSeq(packet, _PACKET_HEADER_SIZE + 1, Len(packet))]

----------------------------------------------------------------------------
(* Peer records *)

\* _PeerRecord.__init__, read at clock reading t.
_PeerRecord(identifier, address, t) ==
    [identifier |-> identifier, address |-> address, nextPacketId |-> 0,
     lastActivityTime |-> t]

\* _PeerRecord.generateNextPacketId: the id returned and the record afterwards.
generateNextPacketId(rec) ==
    [id |-> rec.nextPacketId,
     rec |-> [rec EXCEPT !.nextPacketId = (rec.nextPacketId + 1) % PacketIdModulus]]

\* A dict with one more key.
DictPut(d, k, v) == [x \in DOMAIN d \cup {k} |-> IF x = k THEN v ELSE d[x]]

EmptyDict == [x \in {} |-> 0]

\* A datagram on the wire and its other end.
Datagram(data, addr) == [data |-> data, addr |-> addr]

----------------------------------------------------------------------------
(* The operations of PexNode, each as the outcome of one call in the current *)
(* state: the exception raised ("none" for a normal return) and the fields   *)
(* the call leaves behind.                                                   *)

\* `key in self._peers` for the bool that _sanitizePeerId returns: the keys of
\* _peers are str, and in Python no str equals a bool.
PyBoolEqStr(b, k) == FALSE

BoolKeys(b, d) == {k \in DOMAIN d : PyBoolEqStr(b, k)}

\* self._sock.sendto(data, address): the socket takes the datagram, or raises
\* OverflowError for a port that is none (outside 0..65535).
SockSendTo(data, address) ==
    [exc |-> IF address[2] \in 0..65535 THEN "none" ELSE "OverflowError"]

\* addPeer without the test of line 201: a known peer is set up afresh.
addPeer_NoMembershipTest(ip, port) ==
    LET peerId == _addrToPeerId(ip, port)
        peerRecord == _PeerRecord(peerId, <<ip, port>>, now)
        gen == generateNextPacketId(peerRecord)
        pingPkt == _packPacket(_PACKET_TYPE_PING, gen.id, <<>>)
        put == SockSendTo(pingPkt.bytes, peerRecord.address)
    IN  IF FALSE
        THEN [exc |-> "none", peers |-> peers, sent |-> sent]
        ELSE IF pingPkt.exc # "none"
        THEN [exc |-> pingPkt.exc, peers |-> peers, sent |-> sent]
        ELSE IF put.exc # "none"
        THEN [exc |-> put.exc, peers |-> peers, sent |-> sent]
        ELSE [exc |-> "none",
              peers |-> DictPut(peers, peerId, gen.rec),
              sent |-> Append(sent, Datagram(pingPkt.bytes, peerRecord.address))]

\* addPeer with line 212 moved before line 207: the record is stored first.
addPeer_StoreFirst(ip, port) ==
    LET peerId == _addrToPeerId(ip, port)
        peerRecord == _PeerRecord(peerId, <<ip, port>>, now)
        gen == generateNextPacketId(peerRecord)
        pingPkt == _packPacket(_PACKET_TYPE_PING, gen.id, <<>>)
        put == SockSendTo(pingPkt.bytes, peerRecord.address)
    IN  IF peerId \in DOMAIN peers
        THEN [exc |-> "none", peers |-> peers, sent |-> sent]
        ELSE IF pingPkt.exc # "none"
        THEN [exc |-> pingPkt.exc, peers |-> DictPut(peers, peerId, gen.rec), sent |-> sent]
        ELSE IF put.exc # "none"
        THEN [exc |-> put.exc, peers |-> DictPut(peers, peerId, gen.rec), sent |-> sent]
        ELSE [exc |-> "none",
              peers |-> DictPut(peers, peerId, gen.rec),
              sent |-> Append(sent, Datagram(pingPkt.bytes, peerRecord.address))]

\* addPeer with line 212 as `self._peers = {peerId: peerRecord}`.
addPeer_Replace(ip, port) ==
    LET peerId == _addrToPeerId(ip, port)
        peerRecord == _PeerRecord(peerId, <<ip, port>>, now)
        gen == generateNextPacketId(peerRecord)
        pingPkt == _packPacket(_PACKET_TYPE_PING, gen.id, <<>>)
        put == SockSendTo(pingPkt.bytes, peerRecord.address)
    IN  IF peerId \in DOMAIN peers
        THEN [exc |-> "none", peers |-> peers, sent |-> sent]
        ELSE IF pingPkt.exc # "none"
        THEN [exc |-> pingPkt.exc, peers |-> peers, sent |-> sent]
        ELSE IF put.exc # "none"
        THEN [exc |-> put.exc, peers |-> peers, sent |-> sent]
        ELSE [exc |-> "none",
              peers |-> DictPut(EmptyDict, peerId, gen.rec),
              sent |-> Append(sent, Datagram(pingPkt.bytes, peerRecord.address))]

\* PexNode.addPeer.  The record is stored on line 212, after _packPacket and
\* sendto have returned; what either raises leaves addPeer with _peers as it was.
addPeer(ip, port) ==
    LET peerId == _addrToPeerId(ip, port)
        peerRecord == _PeerRecord(peerId, <<ip, port>>, now)
        gen == generateNextPacketId(peerRecord)
        pingPkt == _packPacket(_PACKET_TYPE_PING, gen.id, <<>>)
        put == SockSendTo(pingPkt.bytes, peerRecord.address)
    IN  IF peerId \in DOMAIN peers
        THEN [exc |-> "none", peers |-> peers, sent |-> sent]
        ELSE IF pingPkt.exc # "none"
        THEN [exc |-> pingPkt.exc, peers |-> peers, sent |-> sent]
        ELSE IF put.exc # "none"
        THEN [exc |-> put.exc, peers |-> peers, sent |-> sent]
        ELSE [exc |-> "none",
              peers |-> DictPut(peers, peerId, gen.rec),
              sent |-> Append(sent, Datagram(pingPkt.bytes, peerRecord.address))]

\* PexNode.sendMessage.  Line 217 overwrites peerId with what _sanitizePeerId
\* returns, so line 218 looks a bool up; line 224 names a class that pex.py
\* never imports (it is swarm.InaccessiblePeerException), so it raises NameError.
sendMessage(peerId, message) ==
    LET clean == _sanitizePeerId(peerId)
        keys == BoolKeys(clean.val, peers)
    IN  IF clean.exc # "none"
        THEN [exc |-> clean.exc, peers |-> peers, sent |-> sent]
        ELSE IF keys # {}
        THEN LET key == CHOOSE k \in keys : TRUE
                 gen == generateNextPacketId(peers[key])
                 msgPacket == _packPacket(_PACKET_TYPE_MESSAGE, gen.id, message)
             IN  IF msgPacket.exc # "none"
                 THEN [exc |-> msgPacket.exc,
                       peers |-> [peers EXCEPT ![key] = gen.rec], sent |-> sent]
                 ELSE [exc |-> "none",
                       peers |-> [peers EXCEPT ![key] = gen.rec],
                       sent |-> Append(sent, Datagram(msgPacket.bytes, gen.rec.address))]
        ELSE [exc |-> "NameError", peers |-> peers, sent |-> sent]

\* PexNode.knownPeers
knownPeers == DOMAIN peers

----------------------------------------------------------------------------
(* What the threads and the network can do *)

\* poll's locals packet and peerAddr before the first recvfrom has returned.
NoLocals == [packet |-> <<>>, peerAddr |-> <<>>]
PollIdle == [pc |-> "idle", exc |-> "none"] @@ NoLocals

NoCommand == [op |-> "none", addr |-> <<>>, peerId |-> <<>>, message |-> <<>>]
AddPeerCommand(a) == [NoCommand EXCEPT !.op = "addPeer", !.addr = a]
SendMessageCommand(i, m) ==
    [NoCommand EXCEPT !.op = "sendMessage", !.peerId = i, !.message = m]
KnownPeersCommand == [NoCommand EXCEPT !.op = "knownPeers"]

\* A payload of n zero bytes.
Filler(n) == [i \in 1..n |-> 0]

\* The payloads the application sends: "hi", the empty one, and one that is a
\* byte too long for a packet.
Messages == {<<104, 105>>, <<>>, Filler(_PACKET_BUFSIZE - _PACKET_HEADER_SIZE + 1)}

Commands ==
    {AddPeerCommand(a) : a \in Addrs \cup {AddrC}}
    \cup {SendMessageCommand(i, m) : i \in IdInputs, m \in Messages}
    \cup {KnownPeersCommand}

\* Datagrams the network delivers: one well-formed packet of each type, and
\* three that the codec must refuse (too short, wrong magic, type code 4).
DgMessage == <<115, 101, 116, 104, 0, 0, 1, 104, 105>>
DgAck == <<115, 101, 116, 104, 1, 0, 0>>
DgPing == <<115, 101, 116, 104, 2, 1, 5>>
DgPex == <<115, 101, 116, 104, 3, 0, 0>>
DgShort == <<115, 101, 116, 104, 2, 0>>
DgBadMagic == <<120, 101, 116, 104, 2, 0, 5>>
DgBadType == <<115, 101, 116, 104, 4, 0, 5>>
InboundData == {DgMessage, DgAck, DgPing, DgPex, DgShort, DgBadMagic, DgBadType}

\* Each of them may come from either address.
Inbound == {Datagram(data, addr) : data \in InboundData, addr \in Addrs}

AppPrompt == [pc |-> "prompt", cmd |-> NoCommand, exc |-> "none"]

NodeInit ==
    /\ now = 0
    /\ broadcast \in BOOLEAN
    /\ lastBroadcastTime = 0 - _BROADCAST_INTERVAL
    /\ peers = EmptyDict
    /\ unackedMessages = <<>>
    /\ sockIn = 0
    /\ sent = <<>>
    /\ callbacks = <<>>
    /\ nodeLock = "free"
    /\ poll = PollIdle
    /\ app = AppPrompt
    /\ nTicks = 0 /\ nPolls = 0 /\ nCalls = 0 /\ nArrivals = 0

CodecIdle == [pc |-> "idle", type |-> 0, id |-> 0, payload |-> <<>>,
              exc |-> "none", packed |-> <<>>, unpacked |-> PyFalse]

Init == NodeInit /\ codec = CodecIdle

\* time.clock() is seen to advance.
Tick(d) ==
    /\ nTicks < MaxTicks
    /\ now' = now + d
    /\ nTicks' = nTicks + 1
    /\ UNCHANGED << broadcast, lastBroadcastTime, peers, unackedMessages, sockIn,
                    sent, callbacks, nodeLock, poll, app, nPolls, nCalls,
                    nArrivals, codec >>

\* A datagram reaches the socket.  What it holds and where it is from is
\* settled when recvfrom hands it over: nothing reads it before.
Arrive ==
    /\ nArrivals < MaxArrivals
    /\ sockIn' = sockIn + 1
    /\ nArrivals' = nArrivals + 1
    /\ UNCHANGED << now, broadcast, lastBroadcastTime, peers, unackedMessages,
                    sent, callbacks, nodeLock, poll, app, nTicks, nPolls, nCalls,
                    codec >>

\* PollThread.run calling poll without `with self._nodeLock`.
PollAcquire_NoLock ==
    /\ poll.pc = "idle"
    /\ nPolls < MaxPolls
    /\ nodeLock' = "poll"
    /\ poll' = [poll EXCEPT !.pc = "broadcast"]
    /\ nPolls' = nPolls + 1
    /\ UNCHANGED << now, broadcast, lastBroadcastTime, peers, unackedMessages,
                    sockIn, sent, callbacks, app, nTicks, nCalls, nArrivals, codec >>

\* PollThread.run enters `with self._nodeLock` and calls poll.
PollAcquire ==
    /\ poll.pc = "idle"
    /\ nodeLock = "free"
    /\ nPolls < MaxPolls
    /\ nodeLock' = "poll"
    /\ poll' = [poll EXCEPT !.pc = "broadcast"]
    /\ nPolls' = nPolls + 1
    /\ UNCHANGED << now, broadcast, lastBroadcastTime, peers, unackedMessages,
                    sockIn, sent, callbacks, app, nTicks, nCalls, nArrivals, codec >>

\* poll, lines 172-177: the broadcast, when it is due.
PollBroadcast ==
    /\ poll.pc = "broadcast"
    /\ LET curTime == now
           broadcastPkt == _packPacket(_PACKET_TYPE_PING, 0, <<>>)
       IN  IF broadcast /\ lastBroadcastTime < curTime - PollBroadcastGap
           THEN /\ lastBroadcastTime' = curTime
                /\ sent' = Append(sent, Datagram(broadcastPkt.bytes, BroadcastAddr))
           ELSE UNCHANGED << lastBroadcastTime, sent >>
    /\ poll' = [poll EXCEPT !.pc = "drain"]
    /\ UNCHANGED << now, broadcast, peers, unackedMessages, sockIn, callbacks,
                    nodeLock, app, nTicks, nPolls, nCalls, nArrivals, codec >>

\* poll, lines 180-191, one turn of the loop with a datagram waiting.  recvfrom
\* hands over the oldest datagram, dgram.  When the header does not unpack, the
\* loop goes round again.  When it does, line 189 names _handlePacket, which is
\* a method and no name of the module: NameError is raised, and the except
\* clause does not match it.
PollDrain(dgram) ==
    /\ poll.pc = "drain"
    /\ sockIn > 0
    /\ LET packet == dgram.data
           peerAddr == dgram.addr
           result == _unpackPacketHeader(packet)
       IN  /\ sockIn' = sockIn - 1
           /\ poll' = [pc |-> IF result.ok THEN "raised" ELSE "drain",
                       exc |-> IF result.ok THEN "NameError" ELSE "none",
                       packet |-> packet, peerAddr |-> peerAddr]
    /\ UNCHANGED << now, broadcast, lastBroadcastTime, peers, unackedMessages,
                    sent, callbacks, nodeLock, app, nTicks, nPolls, nCalls,
                    nArrivals, codec >>

\* The exception leaves poll and PollThread.run, lines 26-30: nothing catches
\* it, the `with` statement gives the lock back and the thread ends.
PollDie ==
    /\ poll.pc = "raised"
    /\ poll' = [pc |-> "dead", exc |-> poll.exc] @@ NoLocals
    /\ nodeLock' = "free"
    /\ UNCHANGED << now, broadcast, lastBroadcastTime, peers, unackedMessages,
                    sockIn, sent, callbacks, app, nTicks, nPolls, nCalls,
                    nArrivals, codec >>

\* poll, lines 184 and 190-191: nothing waits, recvfrom raises BlockingIOError
\* and the loop ends.
PollDrainEmpty ==
    /\ poll.pc = "drain"
    /\ sockIn = 0
    /\ poll' = [poll EXCEPT !.pc = "resend"]
    /\ UNCHANGED << now, broadcast, lastBroadcastTime, peers, unackedMessages,
                    sockIn, sent, callbacks, nodeLock, app, nTicks, nPolls,
                    nCalls, nArrivals, codec >>

\* poll, lines 193-195: the loop over _unackedMessages, whose body is `pass`;
\* then poll returns, the lock is given back and the thread sleeps.
PollResend ==
    /\ poll.pc = "resend"
    /\ poll' = PollIdle
    /\ nodeLock' = "free"
    /\ UNCHANGED << now, broadcast, lastBroadcastTime, peers, unackedMessages,
                    sockIn, sent, callbacks, app, nTicks, nPolls, nCalls,
                    nArrivals, codec >>

\* The application thread enters `with nodeLock`, example.py line 130.
AppAcquire ==
    /\ app.pc = "prompt"
    /\ nodeLock = "free"
    /\ nCalls < MaxCalls
    /\ nodeLock' = "app"
    /\ app' = [app EXCEPT !.pc = "locked"]
    /\ nCalls' = nCalls + 1
    /\ UNCHANGED << now, broadcast, lastBroadcastTime, peers, unackedMessages,
                    sockIn, sent, callbacks, poll, nTicks, nPolls, nArrivals, codec >>

\* The call that the command stands for, made while the lock is held.  exc is
\* what the call raised to its caller.
AppCall(cmd) ==
    /\ app.pc = "locked"
    /\ LET out == IF cmd.op = "addPeer"
                  THEN addPeer(cmd.addr[1], cmd.addr[2])
                  ELSE IF cmd.op = "sendMessage"
                  THEN sendMessage(cmd.peerId, cmd.message)
                  ELSE [exc |-> "none", peers |-> peers, sent |-> sent]
       IN  /\ peers' = out.peers
           /\ sent' = out.sent
           /\ app' = [pc |-> "called", cmd |-> cmd, exc |-> out.exc]
    /\ UNCHANGED << now, broadcast, lastBroadcastTime, unackedMessages, sockIn,
                    callbacks, nodeLock, poll, nTicks, nPolls, nCalls, nArrivals,
                    codec >>

\* The `with nodeLock` block is left, by return or by exception.
AppRelease ==
    /\ app.pc = "called"
    /\ nodeLock' = "free"
    /\ app' = AppPrompt
    /\ UNCHANGED << now, broadcast, lastBroadcastTime, peers, unackedMessages,
                    sockIn, sent, callbacks, poll, nTicks, nPolls, nCalls,
                    nArrivals, codec >>

Next ==
    \/ \E d \in TickSteps : Tick(d)
    \/ Arrive
    \/ PollAcquire
    \/ PollBroadcast
    \/ \E dgram \in Inbound : PollDrain(dgram)
    \/ PollDie
    \/ PollDrainEmpty
    \/ PollResend
    \/ AppAcquire
    \/ \E cmd \in Commands : AppCall(cmd)
    \/ AppRelease

Spec == Init /\ [][Next]_vars

----------------------------------------------------------------------------
(* The codec on its own: a packet is packed, handed to sendto, received and  *)
(* unpacked, for types, packet ids and payloads drawn from bounded sets.     *)

PackTypes == 0..(_MAX_PACKET_TYPE + 1)
PackIds == {0, 1, 255, 256, 4660, 65535}
PayloadBytes == {0, 115, 255}

\* The sequences over S of length at most n.
RECURSIVE SeqsUpTo(_, _)
SeqsUpTo(S, n) ==
    IF n = 0 THEN {<<>>}
    ELSE LET shorter == SeqsUpTo(S, n - 1)
         IN  shorter \cup {Append(q, b) : q \in {r \in shorter : Len(r) = n - 1}, b \in S}

\* Short payloads of every content, and long ones on both sides of the limit.
Payloads ==
    SeqsUpTo(PayloadBytes, MaxPayloadLen)
    \cup {Filler(_PACKET_BUFSIZE - _PACKET_HEADER_SIZE - 1),
          Filler(_PACKET_BUFSIZE - _PACKET_HEADER_SIZE),
          Filler(_PACKET_BUFSIZE - _PACKET_HEADER_SIZE + 1),
          Filler(_PACKET_BUFSIZE)}

\* sock.recvfrom(_PACKET_BUFSIZE): at most that many bytes of the datagram.
RecvFrom(data) ==
    IF Len(data) > _PACKET_BUFSIZE THEN SubSeq(data, 1, _PACKET_BUFSIZE) ELSE data

CodecInit ==
    /\ NodeInit
    /\ codec \in {[CodecIdle EXCEPT !.pc = "input", !.type = t, !.id = i, !.payload = p] :
                    t \in PackTypes, i \in PackIds, p \in Payloads}

\* pkt = _packPacket(type, id, payload), as on lines 176, 208 and 221.
CodecPack ==
    /\ codec.pc = "input"
    /\ LET pkt == _packPacket(codec.type, codec.id, codec.payload)
       IN  codec' = [codec EXCEPT !.pc = IF pkt.exc = "none" THEN "packed" ELSE "raised",
                                  !.exc = pkt.exc,
                                  !.packed = pkt.bytes]
    /\ UNCHANGED nodeVars

\* self._sock.sendto(pkt, address), the statement after it: reached only when
\* _packPacket returned.
CodecSend ==
    /\ codec.pc = "packed"
    /\ sent' = Append(sent, Datagram(codec.packed, AddrA))
    /\ codec' = [codec EXCEPT !.pc = "sent"]
    /\ UNCHANGED << now, broadcast, lastBroadcastTime, peers, unackedMessages,
                    sockIn, callbacks, nodeLock, poll, app, nTicks, nPolls,
                    nCalls, nArrivals >>

\* The receiver's recvfrom and _unpackPacketHeader, lines 184-187.
CodecUnpack ==
    /\ codec.pc = "sent"
    /\ codec' = [codec EXCEPT !.pc = "done",
                              !.unpacked = _unpackPacketHeader(RecvFrom(sent[Len(sent)].data))]
    /\ UNCHANGED nodeVars

CodecNext == CodecPack \/ CodecSend \/ CodecUnpack

CodecSpec == CodecInit /\ [][CodecNext]_vars

----------------------------------------------------------------------------
(* What the specification says, in its own terms *)

LowerHexChars ==
    {"0", "1", "2", "3", "4", "5", "6", "7", "8", "9", "a", "b", "c", "d", "e", "f"}

\* A peer identifier as the specification defines it.
IsLowerHex64(id) == Len(id) = 64 /\ \A i \in 1..64 : id[i] \in LowerHexChars

\* The wire format of section 4.1: "seth", the type, the id big-endian, the payload.
WirePacket(type, id, payload) ==
    <<115, 101, 116, 104, type, id \div 256, id % 256>> \o payload

\* A datagram that decode does not return invalid for.
WireValid(data) ==
    /\ Len(data) >= 7
    /\ SubSeq(data, 1, 4) = <<115, 101, 116, 104>>
    /\ data[5] <= 3

WireType(data) == data[5]
WireId(data) == data[6] * 256 + data[7]
WirePayload(data) == SubSeq(data, 8, Len(data))

\* A payload that fits a packet.
Fits(payload) == 7 + Len(payload) <= 1024

\* The pairs (peerId, packetId) of the pending sends.
Pending(unacked) == {<<unacked[i].peerId, unacked[i].packetId>> : i \in DOMAIN unacked}

\* This step is the application's call of op; app'.cmd is the call.
AppCalls(op) == app.pc = "locked" /\ app'.pc = "called" /\ app'.cmd.op = op

\* This step is poll's read of a datagram; poll'.packet and poll'.peerAddr are it.
PollReads == poll.pc = "drain" /\ sockIn' = sockIn - 1

\* This step is poll's read of a well-formed packet of the given type.
PollReadsType(type) ==
    PollReads /\ WireValid(poll'.packet) /\ WireType(poll'.packet) = type

----------------------------------------------------------------------------
(* The claims *)

\* C1: For every sendMessage(peerIdentifier, payload) call whose identifier
\* is valid and present in the registry (and whose payload fits a packet), the
\* call returns normally, takes the next packet id from that peer's counter,
\* sends exactly one MESSAGE packet carrying that id and payload to the peer's
\* address, and leaves a pending send keyed by (peerId, packetId) with
\* retryIndex 0.
C1_SendMessageSendsAndTracks ==
    [][ (/\ AppCalls("sendMessage")
         /\ IsLowerHex64(app'.cmd.peerId)
         /\ app'.cmd.peerId \in DOMAIN peers
         /\ Fits(app'.cmd.message))
        => LET id == app'.cmd.peerId
               n == peers[id].nextPacketId
           IN  /\ app'.exc = "none"
               /\ peers'[id].nextPacketId = (n + 1) % 65536
               /\ sent' = Append(sent, Datagram(WirePacket(0, n, app'.cmd.message),
                                                peers[id].address))
               /\ \E i \in DOMAIN unackedMessages' :
                    /\ unackedMessages'[i].peerId = id
                    /\ unackedMessages'[i].packetId = n
                    /\ unackedMessages'[i].retryIndex = 0 ]_vars

\* C2: ACK clears retransmission: when poll reads an ACK from peer p carrying
\* a packet id that was issued to p, poll processes it without raising, the
\* pair (p, id) is not pending afterwards, nothing but a sendMessage call makes
\* a pair pending again, and the resend phase of poll sends nothing for a pair
\* that is not pending.
C2_AckClearsPending ==
    [][ /\ (/\ PollReadsType(1)
            /\ _addrToPeerId(poll'.peerAddr[1], poll'.peerAddr[2]) \in DOMAIN peers
            /\ WireId(poll'.packet)
                 < peers[_addrToPeerId(poll'.peerAddr[1], poll'.peerAddr[2])].nextPacketId)
           => /\ poll'.exc = "none"
              /\ poll'.pc = "drain"
              /\ <<_addrToPeerId(poll'.peerAddr[1], poll'.peerAddr[2]), WireId(poll'.packet)>>
                   \notin Pending(unackedMessages')
        /\ ~AppCalls("sendMessage")
           => Pending(unackedMessages') \subseteq Pending(unackedMessages)
        /\ (poll.pc = "resend" /\ Pending(unackedMessages) = {}) => sent' = sent ]_vars

\* C3: Backoff exhaustion: a sendMessage to a registered peer starts the
\* ladder (a pending send at tier 0, due 0.01 s later); every resend phase of
\* poll resends each pending send that is due and moves it one tier up the
\* schedule [0.01, 0.1, 1, 10]; the resend at the fourth tier is the last:
\* DeliveryFailed is reported once and the pending send is discarded, so that
\* it is retransmitted exactly 4 times and never after.
C3_BackoffExhaustion ==
    [][ /\ (/\ AppCalls("sendMessage")
            /\ IsLowerHex64(app'.cmd.peerId)
            /\ app'.cmd.peerId \in DOMAIN peers
            /\ Fits(app'.cmd.message))
           => \E i \in DOMAIN unackedMessages' :
                /\ unackedMessages'[i].peerId = app'.cmd.peerId
                /\ unackedMessages'[i].packetId = peers[app'.cmd.peerId].nextPacketId
                /\ unackedMessages'[i].retryIndex = 0
                /\ unackedMessages'[i].nextDeadline = now + _TIMEOUT_LENGTHS[1]
        /\ (poll.pc = "resend" /\ poll'.pc = "idle")
           => \A i \in DOMAIN unackedMessages :
                LET m == unackedMessages[i]
                    due == m.nextDeadline <= now
                    last == m.retryIndex = Len(_TIMEOUT_LENGTHS) - 1
                    resent == \E k \in (Len(sent) + 1)..Len(sent') :
                                sent'[k] = Datagram(WirePacket(0, m.packetId, m.payload),
                                                    peers[m.peerId].address)
                    failed == \E k \in (Len(callbacks) + 1)..Len(callbacks') :
                                callbacks'[k] = [kind |-> "DeliveryFailed",
                                                 peerId |-> m.peerId, packetId |-> m.packetId]
                IN  /\ due <=> resent
                    /\ (due /\ last) <=> failed
                    /\ (due /\ last) <=>
                         (<<m.peerId, m.packetId>> \notin Pending(unackedMessages'))
                    /\ (due /\ ~last) =>
                         \E j \in DOMAIN unackedMessages' :
                            /\ unackedMessages'[j].peerId = m.peerId
                            /\ unackedMessages'[j].packetId = m.packetId
                            /\ unackedMessages'[j].retryIndex = m.retryIndex + 1
                            /\ unackedMessages'[j].nextDeadline
                                 = now + _TIMEOUT_LENGTHS[m.retryIndex + 2]
        /\ (poll.pc = "resend" /\ unackedMessages = <<>>)
           => (sent' = sent /\ callbacks' = callbacks) ]_vars

\* C4: Unknown-peer send: sendMessage with a well-formed 64-character
\* lowercase hex identifier that is no key of the registry fails with
\* InaccessiblePeer, sends no datagram, and leaves the registry, every peer's
\* packet-id counter and the pending sends unchanged.
C4_UnknownPeerSend ==
    [][ (/\ AppCalls("sendMessage")
         /\ IsLowerHex64(app'.cmd.peerId)
         /\ app'.cmd.peerId \notin DOMAIN peers)
        => /\ app'.exc = "InaccessiblePeer"
           /\ sent' = sent
           /\ peers' = peers
           /\ unackedMessages' = unackedMessages ]_vars

\* C5: Malformed identifier: the validity check returns true exactly for the
\* 64-character lowercase hex strings, and sendMessage with any other
\* identifier (a wrong length, or uppercase hex such as "ABCDEF" and 58
\* zeros) fails with MalformedPeerId and sends no datagram.
C5_MalformedIdentifier ==
    [][ AppCalls("sendMessage")
        => /\ _sanitizePeerId(app'.cmd.peerId).exc = "none"
           /\ _sanitizePeerId(app'.cmd.peerId).val = IsLowerHex64(app'.cmd.peerId)
           /\ ~IsLowerHex64(app'.cmd.peerId)
              => /\ app'.exc = "MalformedPeerId"
                 /\ sent' = sent
                 /\ peers' = peers ]_vars

\* C6: Encode/decode round-trip: for every type in {0,1,2,3}, every packet id
\* in [0, 65535] and every payload with 7 + len(payload) <= 1024, encoding
\* does not fail and decoding the encoded packet, as received, yields exactly
\* (type, packetId, payload).
C6_RoundTrip ==
    (codec.pc # "idle" /\ codec.type \in 0..3 /\ codec.id \in 0..65535
        /\ Fits(codec.payload))
    => /\ codec.pc # "raised"
       /\ codec.pc = "done" =>
            codec.unpacked = [ok |-> TRUE, type |-> codec.type, id |-> codec.id,
                              payload |-> codec.payload]

\* A PEX packet with id 0x1234 and the longest payload that fits has made
\* the round trip.
C6_Witness ==
    /\ codec.pc = "done"
    /\ codec.type = 3 /\ codec.id = 4660 /\ Len(codec.payload) = 1017
    /\ codec.unpacked.ok

\* C7: Payload size limit: encode fails exactly when 7 + len(payload) > 1024
\* (so a 1018-byte payload fails and a 1017-byte payload succeeds), and when
\* it fails nothing is handed to the socket.
C7_PayloadLimit ==
    /\ codec.pc \in {"packed", "sent", "done", "raised"} =>
         ((codec.exc = "Exception") <=> (7 + Len(codec.payload) > 1024))
    /\ codec.exc = "Exception" => (codec.pc = "raised" /\ sent = <<>>)
    /\ codec.pc \in {"sent", "done"} => Len(sent) = 1

\* Encoding a payload of 1018 bytes has failed and nothing was sent.
C7_Witness ==
    codec.pc = "raised" /\ Len(codec.payload) = 1018 /\ sent = <<>>

\* C8: Noise tolerance: when poll reads a datagram that is shorter than 7
\* bytes, does not start with "seth" or carries a type code above 3, it raises
\* nothing, sends nothing, makes no callback, leaves the registry and the
\* pending sends as they were, and goes round its loop to read the next one.
C8_NoiseDropped ==
    [][ (PollReads /\ ~WireValid(poll'.packet))
        => /\ poll'.pc = "drain" /\ poll'.exc = "none"
           /\ sent' = sent
           /\ callbacks' = callbacks
           /\ peers' = peers
           /\ unackedMessages' = unackedMessages
           /\ nodeLock' = "poll" ]_vars

\* poll has just dropped a datagram that is no packet, is still in its loop
\* and another datagram waits on the socket.
C8_Witness ==
    /\ poll.pc = "drain"
    /\ poll.peerAddr \in Addrs
    /\ ~WireValid(poll.packet)
    /\ sockIn > 0

\* C9: PING reply: when poll reads a valid PING packet, it sends, in that
\* same call, exactly one ACK packet carrying the PING's packet id to the
\* address the PING came from.
C9_PingReply ==
    [][ PollReadsType(2)
        => sent' = Append(sent, Datagram(WirePacket(1, WireId(poll'.packet), <<>>),
                                         poll'.peerAddr)) ]_vars

\* C10: MESSAGE delivery: when poll reads a valid MESSAGE packet, the
\* application's receive callback is invoked exactly once, with the sender's
\* derived peer identifier and the packet's payload; no other step invokes it.
C10_MessageDelivery ==
    [][ IF PollReadsType(0)
        THEN callbacks' = Append(callbacks,
                 [kind |-> "receive",
                  peerId |-> _addrToPeerId(poll'.peerAddr[1], poll'.peerAddr[2]),
                  payload |-> WirePayload(poll'.packet)])
        ELSE callbacks' = callbacks ]_vars

\* C11: Registration on first contact: when poll reads a valid packet of any
\* type, the registry afterwards holds a record for the sender's address; if
\* the address was unknown the record's nextPacketId is 0, and if it was known
\* the record keeps its packet-id counter and its lastActivityTime is the
\* current time.
C11_RegistrationOnContact ==
    [][ (PollReads /\ WireValid(poll'.packet))
        => LET id == _addrToPeerId(poll'.peerAddr[1], poll'.peerAddr[2])
           IN  /\ id \in DOMAIN peers'
               /\ peers'[id].address = poll'.peerAddr
               /\ id \notin DOMAIN peers => peers'[id].nextPacketId = 0
               /\ id \in DOMAIN peers =>
                    /\ peers'[id].nextPacketId = peers[id].nextPacketId
                    /\ peers'[id].lastActivityTime = now ]_vars

\* C12: addPeer, called with an address the socket can send to: when the
\* address is not in the registry, the call returns, the registry gains the
\* record for it, one PING with packet id 0 goes to that address and the
\* record's nextPacketId is left at 1; when the address is in the registry,
\* the registry (every record's nextPacketId included) and the datagrams sent
\* are the same after the call as before.
C12_AddPeer ==
    [][ (AppCalls("addPeer") /\ app'.cmd.addr[2] \in 0..65535)
        => LET a == app'.cmd.addr
               id == _addrToPeerId(a[1], a[2])
           IN  /\ app'.exc = "none"
               /\ IF id \in DOMAIN peers
                  THEN peers' = peers /\ sent' = sent
                  ELSE /\ sent' = Append(sent, Datagram(WirePacket(2, 0, <<>>), a))
                       /\ DOMAIN peers' = DOMAIN peers \cup {id}
                       /\ \A k \in DOMAIN peers : peers'[k] = peers[k]
                       /\ peers'[id].address = a
                       /\ peers'[id].nextPacketId = 1 ]_vars

\* addPeer has returned for 10.0.0.2:4141, which an earlier call had added:
\* the PING to it went out before a broadcast of poll, and the application has
\* held the lock since before its call, so this call found the peer known.
C12_Witness ==
    /\ app.pc = "called" /\ app.cmd = AddPeerCommand(AddrA) /\ app.exc = "none"
    /\ Len(sent) = 2
    /\ sent[1] = Datagram(WirePacket(2, 0, <<>>), AddrA)
    /\ sent[2].addr = BroadcastAddr
    /\ peers[DigestA].nextPacketId = 1

\* C13: Broadcast tick: on every poll, the first after construction included,
\* in which broadcast is enabled and now - lastBroadcastTime >= 2 s, poll sends
\* exactly one PING with packet id 0 and empty payload to the broadcast
\* address on the configured port and sets lastBroadcastTime to now; in any
\* other poll, and in the other phases of poll, no broadcast PING is sent.
C13_BroadcastTick ==
    [][ /\ (poll.pc = "broadcast" /\ poll'.pc # "broadcast")
           => IF broadcast /\ now - lastBroadcastTime >= 200
              THEN /\ sent' = Append(sent, Datagram(WirePacket(2, 0, <<>>),
                                                    <<"<broadcast>", 4141>>))
                   /\ lastBroadcastTime' = now
              ELSE sent' = sent /\ lastBroadcastTime' = lastBroadcastTime
        /\ poll.pc # "broadcast"
           => /\ lastBroadcastTime' = lastBroadcastTime
              /\ \A k \in (Len(sent) + 1)..Len(sent') :
                    sent'[k].addr # <<"<broadcast>", 4141>> ]_vars

\* C14: Poll ordering: within every poll call the phases run in the order
\* broadcast tick, inbound drain, retransmission tick, and each poll goes
\* through all three; an ACK read in the drain is applied there, before the
\* retransmission tick, which resends only what is still pending.
C14_PollOrdering ==
    [][ /\ poll.pc = "idle" => poll'.pc \in {"idle", "broadcast"}
        /\ poll.pc = "broadcast" => poll'.pc \in {"broadcast", "drain"}
        /\ poll.pc = "drain" => poll'.pc \in {"drain", "resend"}
        /\ poll.pc = "resend" => poll'.pc \in {"resend", "idle"}
        /\ PollReadsType(1)
           => <<_addrToPeerId(poll'.peerAddr[1], poll'.peerAddr[2]), WireId(poll'.packet)>>
                \notin Pending(unackedMessages')
        /\ poll.pc = "resend"
           => \A k \in (Len(sent) + 1)..Len(sent') :
                \E i \in DOMAIN unackedMessages :
                    sent'[k].data = WirePacket(0, unackedMessages[i].packetId,
                                               unackedMessages[i].payload) ]_vars

\* A call of poll is in progress; a call of the application is in progress.
PollInProgress == poll.pc \in {"broadcast", "drain", "raised", "resend"}
AppInProgress == app.pc \in {"locked", "called"}

\* C15: Mutual exclusion: in every interleaving of the two threads at most
\* one of poll and the application's calls (addPeer, sendMessage, the listing
\* of knownPeers) is in progress, and whichever is holds the node lock.
C15_MutualExclusion ==
    /\ ~(PollInProgress /\ AppInProgress)
    /\ PollInProgress => nodeLock = "poll"
    /\ AppInProgress => nodeLock = "app"

\* The application is inside addPeer with the lock, after poll has had it and
\* while the polling thread has polls left to make: it has to wait.
C15_Witness ==
    /\ app.pc = "called" /\ app.cmd.op = "addPeer"
    /\ nodeLock = "app"
    /\ poll.pc = "idle" /\ nPolls >= 1 /\ nPolls < MaxPolls

\* C16: ACK matching is by the pair (peerId, packetId): when poll reads an
\* ACK whose sender and packet id match no pending send, it raises nothing,
\* goes on with its loop and removes no pending send.
C16_UnmatchedAckIgnored ==
    [][ (/\ PollReadsType(1)
         /\ <<_addrToPeerId(poll'.peerAddr[1], poll'.peerAddr[2]), WireId(poll'.packet)>>
              \notin Pending(unackedMessages))
        => /\ poll'.exc = "none"
           /\ poll'.pc = "drain"
           /\ unackedMessages' = unackedMessages ]_vars

\* A peer record whose counter stands at n.
RecordAt(n) == [_PeerRecord(DigestA, AddrA, 0) EXCEPT !.nextPacketId = n]

\* C17: Per-peer packet ids: every record's nextPacketId is in [0, 65535];
\* generating a packet id returns the counter and advances it by one modulo
\* 65536 (so 0 follows 65535); the PING of addPeer carries id 0 and leaves the
\* new record at 1; and each sendMessage to a registered peer sends its
\* MESSAGE with the record's current id and advances the counter by one.
C17_PacketIds ==
    [][ /\ \A k \in DOMAIN peers' : peers'[k].nextPacketId \in 0..65535
        /\ \A n \in {0, 1, 65534, 65535} :
              /\ generateNextPacketId(RecordAt(n)).id = n
              /\ generateNextPacketId(RecordAt(n)).rec.nextPacketId = (n + 1) % 65536
        /\ \A k \in DOMAIN peers' \ DOMAIN peers :
              /\ peers'[k].nextPacketId = 1
              /\ sent' = Append(sent, Datagram(WirePacket(2, 0, <<>>), peers'[k].address))
        /\ (/\ AppCalls("sendMessage")
            /\ IsLowerHex64(app'.cmd.peerId)
            /\ app'.cmd.peerId \in DOMAIN peers
            /\ Fits(app'.cmd.message))
           => LET id == app'.cmd.peerId
                  n == peers[id].nextPacketId
              IN  /\ peers'[id].nextPacketId = (n + 1) % 65536
                  /\ Len(sent') = Len(sent) + 1
                  /\ WireId(sent'[Len(sent')].data) = n ]_vars

\* C18: poll always returns: each turn of the drain takes one datagram off
\* the socket, whatever it holds, and raises nothing; with none waiting the
\* drain ends; the retransmission phase ends with poll's return and the
\* release of the node lock; the polling thread is never ended by an error.
C18_PollReturns ==
    [][ /\ PollReads => (poll'.pc = "drain" /\ poll'.exc = "none" /\ nodeLock' = "poll")
        /\ (poll.pc = "drain" /\ sockIn = 0) => poll'.pc \in {"drain", "resend"}
        /\ (poll.pc = "resend" /\ poll'.pc # "resend")
           => (poll'.pc = "idle" /\ nodeLock' = "free")
        /\ poll'.pc \notin {"raised", "dead"} ]_vars

\* C19: addPeer stores the new record only after the PING to it has been
\* sent: a call that raises leaves the registry and the datagrams sent as
\* they were, a record enters the registry only in a call that sent the PING
\* to its address, and every call for an address that is not registered
\* either sends that PING or raises.
C19_StoreAfterSend ==
    [][ AppCalls("addPeer")
        => LET a == app'.cmd.addr
               id == _addrToPeerId(a[1], a[2])
               ping == Datagram(WirePacket(2, 0, <<>>), a)
           IN  /\ app'.exc # "none" => (peers' = peers /\ sent' = sent)
               /\ id \in DOMAIN peers' \ DOMAIN peers => sent' = Append(sent, ping)
               /\ id \notin DOMAIN peers
                  => \/ app'.exc = "none" /\ sent' = Append(sent, ping)
                                          /\ id \in DOMAIN peers'
                     \/ app'.exc # "none" /\ id \notin DOMAIN peers' ]_vars

\* The second call of the application was addPeer for an address that sendto
\* refuses: it raised, no record for the address is stored and nothing went
\* to the address.
C19_Witness ==
    /\ app.pc = "called" /\ app.cmd = AddPeerCommand(AddrC)
    /\ app.exc = "OverflowError"
    /\ nCalls = 2
    /\ DigestC \notin DOMAIN peers
    /\ \A k \in DOMAIN sent : sent[k].addr # AddrC

\* C20: Registry consistency: every key k of the peer map maps to a record
\* whose identifier is k and is the identifier derived from the record's
\* address, no two records have one address, and no step removes a record or
\* changes a record's identifier or address.
C20_RegistryConsistency ==
    [][ /\ \A k \in DOMAIN peers' :
              /\ peers'[k].identifier = k
              /\ _addrToPeerId(peers'[k].address[1], peers'[k].address[2]) = k
        /\ \A j, k \in DOMAIN peers' :
              peers'[j].address = peers'[k].address => j = k
        /\ \A k \in DOMAIN peers :
              /\ k \in DOMAIN peers'
              /\ peers'[k].identifier = peers[k].identifier
              /\ peers'[k].address = peers[k].address ]_vars

\* Both peers are registered, after the polling thread has died on a packet.
C20_Witness ==
    /\ DOMAIN peers = {DigestA, DigestB}
    /\ poll.pc = "dead"
    /\ nCalls = 2

====
